---- MODULE Spec2Model ----
(***************************************************************************)
(* CropsFromTrialsIterator (braindecode/datautil/iterators.py): planning   *)
(* of the crop windows of each trial, flattening, batching and the lazy    *)
(* batch sequence returned by get_batches.                                 *)
(*                                                                         *)
(* A trial is represented by its time length (trial.shape[1]); a batch by  *)
(* the coordinates (i_trial, start, stop) of the slices X[i_trial][:,      *)
(* start:stop] it stacks; the labels y are sliced by the same coordinates   *)
(* and are left out.  Indices of trials, windows and samples are 0-based   *)
(* as in the source.  The seed (2017, 6, 28) is represented by 2017.       *)
(* The caller holds one dataset, drawn at the start of a run, and passes   *)
(* it to every get_batches call of the run.                                *)
(***************************************************************************)
EXTENDS Integers, Sequences, FiniteSets

VARIABLES
    batch_size,          \* self.batch_size
    input_time_length,   \* self.input_time_length
    n_preds_per_input,   \* self.n_preds_per_input
    seed,                \* self.seed
    rng,                 \* self.rng: the state of the RandomState
    dataset,             \* the caller's dataset: the time length of each trial of dataset.X
    gens,                \* the generator objects get_batches has returned
    call_result,         \* how the last get_batches call ended
    n_resets,            \* history: reset_rng() calls so far
    n_shuffles,          \* history: permutations drawn since construction / reset
    plan_args,           \* arguments of a direct _get_start_stop_blocks_for_trial call
    plan_result          \* its return value

vars == <<batch_size, input_time_length, n_preds_per_input, seed, rng, dataset, gens,
          call_result, n_resets, n_shuffles, plan_args, plan_result>>

iter_vars == <<batch_size, input_time_length, n_preds_per_input, seed, rng, dataset, gens,
               call_result, n_resets, n_shuffles>>

plan_vars == <<plan_args, plan_result>>

(***************************************************************************)
(* Bounds of the model.                                                    *)
(***************************************************************************)
MaxInputLen == 3      \* input_time_length ranges over 1..MaxInputLen
MaxTrialLen == 4      \* time length of a trial ranges over 1..MaxTrialLen
MaxTrials == 2        \* trials per dataset: 0..MaxTrials
MaxBatchSize == 2     \* batch_size ranges over 1..MaxBatchSize
MaxGens == 2          \* successful get_batches calls per run
MaxResets == 1        \* reset_rng() calls per run
MaxPlanStart == 3     \* i_trial_start of a direct planner call: 0..MaxPlanStart
MaxPlanLen == 6       \* i_trial_stop - i_trial_start of a direct call: 1..MaxPlanLen

DefaultSeed == 2017

Min(a, b) == IF a < b THEN a ELSE b

\* Python's range(a, b) as a sequence
RECURSIVE PyRange(_, _)
PyRange(a, b) == IF a >= b THEN <<>> ELSE <<a>> \o PyRange(a + 1, b)

RangeSet(a, b) == {i \in a..(b - 1) : TRUE}

(***************************************************************************)
(* _get_start_stop_blocks_for_trial                                        *)
(***************************************************************************)
\* mutant: the cursor skips one sample at every step
advance_window_stop_skip(i_window_stop, n_preds) == i_window_stop + n_preds + 1

\* i_window_stop += n_preds_per_input
advance_window_stop(i_window_stop, n_preds) == i_window_stop + n_preds

\* i_adjusted_stop = min(i_window_stop, i_trial_stop)
adjusted_stop(i_window_stop, i_trial_stop) == Min(i_window_stop, i_trial_stop)

\* mutant: one more turn of the loop when the cursor sits on the trial's end
window_loop_continues_incl(i_window_stop, i_trial_stop) == i_window_stop <= i_trial_stop

\* while i_window_stop < i_trial_stop
window_loop_continues(i_window_stop, i_trial_stop) == i_window_stop < i_trial_stop

\* mutant: the window's start is taken from the cursor, not from the adjusted stop
window_start_unadjusted(i_window_stop, i_adjusted_stop, in_len) == i_window_stop - in_len

\* i_window_start = i_adjusted_stop - input_time_length
window_start(i_window_stop, i_adjusted_stop, in_len) == i_adjusted_stop - in_len

RECURSIVE window_loop(_, _, _, _, _)
window_loop(i_window_stop, i_trial_stop, in_len, n_preds, start_stop_blocks) ==
    IF window_loop_continues(i_window_stop, i_trial_stop)
    THEN LET stop1 == advance_window_stop(i_window_stop, n_preds)
             i_adjusted_stop == adjusted_stop(stop1, i_trial_stop)
             i_window_start == window_start(stop1, i_adjusted_stop, in_len)
         IN window_loop(stop1, i_trial_stop, in_len, n_preds,
                        Append(start_stop_blocks, <<i_window_start, i_adjusted_stop>>))
    ELSE start_stop_blocks

get_start_stop_blocks_for_trial(i_trial_start, i_trial_stop, in_len, n_preds) ==
    window_loop(i_trial_start, i_trial_stop, in_len, n_preds, <<>>)

(***************************************************************************)
(* Direct calls of the planner: the arguments range over every trial with  *)
(* i_trial_start < i_trial_stop and input_time_length >= n_preds >= 1.     *)
(***************************************************************************)
NoPlan == [called |-> FALSE]

NoCall == [called |-> FALSE, raised |-> "none", line |-> 0]

PlanArgs ==
    {[called |-> TRUE, i_trial_start |-> s, i_trial_stop |-> s + len,
      input_time_length |-> l, n_preds_per_input |-> n] :
        s \in 0..MaxPlanStart, len \in 1..MaxPlanLen,
        l \in 1..MaxInputLen, n \in 1..MaxInputLen}

PlanInit ==
    /\ plan_args \in {a \in PlanArgs : a.n_preds_per_input <= a.input_time_length}
    /\ plan_result = <<>>
    /\ batch_size = 1
    /\ input_time_length = 1
    /\ n_preds_per_input = 1
    /\ seed = DefaultSeed
    /\ rng = 0
    /\ dataset = <<>>
    /\ gens = <<>>
    /\ call_result = NoCall
    /\ n_resets = 0
    /\ n_shuffles = 0

PlanTrial ==
    /\ plan_result = <<>>
    /\ plan_result' = get_start_stop_blocks_for_trial(
                          plan_args.i_trial_start, plan_args.i_trial_stop,
                          plan_args.input_time_length, plan_args.n_preds_per_input)
    /\ UNCHANGED <<plan_args, iter_vars>>

PlanNext == PlanTrial

SpecPlan == PlanInit /\ [][PlanNext]_vars

\* the samples a window predicts: its trailing n_preds_per_input indices
Predicted(block, n_preds) == RangeSet(block[2] - n_preds, block[2])

Planned == plan_result # <<>>

TrialRange == RangeSet(plan_args.i_trial_start, plan_args.i_trial_stop)

\* C1: the predicted ranges of the planned windows, clipped to the trial's
\* predictable range, cover that range exactly: every index of
\* [i_trial_start, i_trial_stop) is predicted and nothing else is.
C1_CoverageExact ==
    Planned =>
        (UNION {Predicted(plan_result[k], plan_args.n_preds_per_input) \cap TrialRange :
                    k \in 1..Len(plan_result)}) = TrialRange

\* C1 witness: a planned trial of several windows whose last window had to
\* be pulled back (its predicted range starts before the previous stop)
C1_Witness ==
    /\ Planned
    /\ Len(plan_result) >= 3
    /\ plan_result[Len(plan_result)][2] - plan_args.n_preds_per_input
            < plan_result[Len(plan_result) - 1][2]

Overlap(k1, k2) ==
    Predicted(plan_result[k1], plan_args.n_preds_per_input)
        \cap Predicted(plan_result[k2], plan_args.n_preds_per_input)

\* C8: for a trial at least n_preds_per_input long, the predicted ranges of
\* two windows are disjoint unless they are the second-to-last and the last
\* window; those share at most n_preds_per_input - 1 indices, and none when
\* the trial's length is a multiple of n_preds_per_input.
C8_OverlapOnlyAtEnd ==
    (Planned /\ plan_args.i_trial_stop - plan_args.i_trial_start >= plan_args.n_preds_per_input) =>
        \A k1, k2 \in 1..Len(plan_result) :
            k1 < k2 =>
                IF k1 = Len(plan_result) - 1 /\ k2 = Len(plan_result)
                THEN /\ Cardinality(Overlap(k1, k2)) <= plan_args.n_preds_per_input - 1
                     /\ ((plan_args.i_trial_stop - plan_args.i_trial_start)
                            % plan_args.n_preds_per_input = 0
                         => Overlap(k1, k2) = {})
                ELSE Overlap(k1, k2) = {}

\* C8 witness: a planned trial whose last two windows do predict common samples
C8_Witness ==
    /\ Planned
    /\ plan_args.i_trial_stop - plan_args.i_trial_start >= plan_args.n_preds_per_input
    /\ Len(plan_result) >= 3
    /\ Overlap(Len(plan_result) - 1, Len(plan_result)) # {}


(***************************************************************************)
(* numpy.random.RandomState: the generator's state is a number, seeding    *)
(* fixes it from the seed, and drawing a permutation moves it on.          *)
(***************************************************************************)
RandomState(s) == s % 16

rng_advance(state) == (state * 5 + 3) % 16

\* rng.shuffle(all_inds): Fisher-Yates, the swap positions a function of the
\* state the generator is in when the shuffle starts
RECURSIVE rng_shuffle(_, _, _)
rng_shuffle(state, inds, i) ==
    IF i <= 1 THEN inds
    ELSE LET j == 1 + (((state + 1) * (i + 1) + (state \div 4)) % i)
             swapped == [inds EXCEPT ![i] = inds[j], ![j] = inds[i]]
         IN rng_shuffle(state, swapped, i - 1)

(***************************************************************************)
(* braindecode.util.get_balanced_batches (BatchPartitioner): the indices   *)
(* 0..n_items-1, permuted once by rng when shuffle is true, cut into       *)
(* ceil(n_items / batch_size) contiguous groups of batch_size indices, the *)
(* last group taking the remainder.                                        *)
(***************************************************************************)
n_groups(n_items, bsize) == (n_items + bsize - 1) \div bsize

get_balanced_batches(n_items, bsize, state, shuffle) ==
    LET all_inds == IF shuffle THEN rng_shuffle(state, PyRange(0, n_items), n_items)
                               ELSE PyRange(0, n_items)
    IN [batches |-> [g \in 1..n_groups(n_items, bsize) |->
                        SubSeq(all_inds, (g - 1) * bsize + 1, Min(g * bsize, n_items))],
        rng |-> IF shuffle THEN rng_advance(state) ELSE state]

(***************************************************************************)
(* _compute_start_stop_block_inds                                          *)
(***************************************************************************)
\* all_predicted_samples: range(stop - n_preds_per_input, stop) per block
all_predicted_samples(start_stop_blocks, n_preds) ==
    [k \in 1..Len(start_stop_blocks) |->
        PyRange(start_stop_blocks[k][2] - n_preds, start_stop_blocks[k][2])]

SeqToSet(s) == {s[k] : k \in 1..Len(s)}

\* np.array_equal(range(start, stop), np.unique(np.concatenate(samples))):
\* np.unique sorts and removes duplicates, so the two are equal exactly when
\* the samples are, as a set, the indices of the range.  np.concatenate
\* raises ValueError on an empty list.
coverage_check(i_trial_start, i_trial_stop, samples) ==
    IF samples = <<>> THEN "ValueError"
    ELSE IF UNION {SeqToSet(samples[k]) : k \in 1..Len(samples)}
                = RangeSet(i_trial_start, i_trial_stop)
         THEN "none"
         ELSE "AssertionError"

\* the loop over the trials, i_trial = from..len-1; stops at the first error
RECURSIVE compute_loop(_, _, _, _, _, _, _)
compute_loop(i_trial, i_trial_starts, i_trial_stops, in_len, n_preds, check, acc) ==
    IF i_trial > Len(i_trial_starts) THEN [raised |-> "none", blocks |-> acc]
    ELSE LET start_stop_blocks ==
                 get_start_stop_blocks_for_trial(i_trial_starts[i_trial],
                     i_trial_stops[i_trial], in_len, n_preds)
             checked ==
                 IF check
                 THEN coverage_check(i_trial_starts[i_trial], i_trial_stops[i_trial],
                          all_predicted_samples(start_stop_blocks, n_preds))
                 ELSE "none"
         IN IF checked # "none" THEN [raised |-> checked, blocks |-> <<>>]
            ELSE compute_loop(i_trial + 1, i_trial_starts, i_trial_stops, in_len,
                              n_preds, check, Append(acc, start_stop_blocks))

compute_start_stop_block_inds(i_trial_starts, i_trial_stops, in_len, n_preds, check) ==
    compute_loop(1, i_trial_starts, i_trial_stops, in_len, n_preds, check, <<>>)


(***************************************************************************)
(* CropsFromTrialsIterator.get_batches, up to the return statement         *)
(***************************************************************************)
\* mutant: only the first trial's length is checked
input_lens_ok_first(input_lens, in_len) ==
    input_lens = <<>> \/ input_lens[1] >= in_len

\* for i_trial, input_len in enumerate(input_lens): assert input_len >= ...
input_lens_ok(input_lens, in_len) ==
    \A i_trial \in 1..Len(input_lens) : input_lens[i_trial] >= in_len

\* mutant: the first predictable sample is taken one too late
first_predictable_late(in_len, n_preds) == in_len - n_preds + 1

\* n_receptive_field - 1, with n_receptive_field = input_time_length - n_preds_per_input + 1
first_predictable(in_len, n_preds) == (in_len - n_preds + 1) - 1

\* the checks on the first and the last block of every trial
RECURSIVE first_last_check(_, _, _)
first_last_check(i_trial, blocks_per_trial, i_trial_stops) ==
    IF i_trial > Len(blocks_per_trial) THEN [raised |-> "none", line |-> 0]
    ELSE LET trial_blocks == blocks_per_trial[i_trial]
         IN IF trial_blocks = <<>> THEN [raised |-> "IndexError", line |-> 77]
            ELSE IF trial_blocks[1][1] # 0 THEN [raised |-> "AssertionError", line |-> 77]
            ELSE IF trial_blocks[Len(trial_blocks)][2] # i_trial_stops[i_trial]
                 THEN [raised |-> "AssertionError", line |-> 78]
            ELSE first_last_check(i_trial + 1, blocks_per_trial, i_trial_stops)

get_batches_plan(X, in_len, n_preds) ==
    LET i_trial_starts == [i \in 1..Len(X) |-> first_predictable(in_len, n_preds)]
        i_trial_stops == X
    IN IF ~input_lens_ok(i_trial_stops, in_len)
       THEN [raised |-> "AssertionError", line |-> 63, blocks |-> <<>>]
       ELSE LET computed == compute_start_stop_block_inds(
                                i_trial_starts, i_trial_stops, in_len, n_preds, TRUE)
            IN IF computed.raised # "none"
               THEN [raised |-> computed.raised, line |-> 152, blocks |-> <<>>]
               ELSE LET fl == first_last_check(1, computed.blocks, i_trial_stops)
                    IN [raised |-> fl.raised, line |-> fl.line,
                        blocks |-> IF fl.raised = "none" THEN computed.blocks ELSE <<>>]

(***************************************************************************)
(* CropsFromTrialsIterator._yield_block_batches: a generator; its body     *)
(* starts to run at the first next() on it.                                *)
(***************************************************************************)
\* [(i_trial, start, stop) for i_trial, block in enumerate(...) for (start, stop) in block]
RECURSIVE flatten_blocks(_, _)
flatten_blocks(i_trial, blocks_per_trial) ==
    IF i_trial > Len(blocks_per_trial) THEN <<>>
    ELSE [k \in 1..Len(blocks_per_trial[i_trial]) |->
              <<i_trial - 1, blocks_per_trial[i_trial][k][1], blocks_per_trial[i_trial][k][2]>>]
         \o flatten_blocks(i_trial + 1, blocks_per_trial)

\* np.array(rows); if ndim == 1 (no row at all): array[None, :], one row of no column
as_2d_array(rows) == IF rows = <<>> THEN <<(<<>>)>> ELSE rows

\* _create_batch_from_i_trial_start_stop_blocks: the slices X[i_trial][:, start:stop];
\* unpacking a row that has not three entries raises ValueError
create_batch(rows) ==
    IF \E k \in 1..Len(rows) : Len(rows[k]) # 3
    THEN [raised |-> "ValueError", batch |-> <<>>]
    ELSE [raised |-> "none",
          batch |-> [k \in 1..Len(rows) |->
                        [i_trial |-> rows[k][1], start |-> rows[k][2], stop |-> rows[k][3]]]]

\* mutant: the balanced batches are always drawn shuffled
batches_shuffle_arg_always(shuffle) == TRUE

\* shuffle=shuffle in the call of get_balanced_batches
batches_shuffle_arg(shuffle) == shuffle

\* mutant: the first len(i_blocks) rows, whatever the indices
take_rows_head(array, i_blocks) == [k \in 1..Len(i_blocks) |-> array[k]]

\* i_trial_start_stop_block[i_blocks]
take_rows(array, i_blocks) == [k \in 1..Len(i_blocks) |-> array[i_blocks[k] + 1]]

\* mutant: the body starts over at every next()
body_starts_always(g) == TRUE

\* a generator's body runs from its top at the first next() only
body_starts(g) == g.state = "created"

\* the body from its start to the loop over blocks_per_batch
gen_start(g, bsize, state) ==
    LET array == as_2d_array(flatten_blocks(1, g.blocks))
        bb == get_balanced_batches(Len(array), bsize, state, batches_shuffle_arg(g.shuffle))
    IN [gen |-> [g EXCEPT !.array = array, !.batches = bb.batches],
        rng |-> bb.rng]

\* one turn of the loop over blocks_per_batch, up to the yield, or the loop's end
gen_loop(g) ==
    IF g.pos >= Len(g.batches)
    THEN [g EXCEPT !.state = "done", !.raised = "StopIteration"]
    ELSE LET i_blocks == g.batches[g.pos + 1]
             start_stop_blocks == take_rows(g.array, i_blocks)
             made == create_batch(start_stop_blocks)
         IN IF made.raised # "none"
            THEN [g EXCEPT !.state = "failed", !.raised = made.raised]
            ELSE [g EXCEPT !.state = "suspended", !.pos = g.pos + 1,
                           !.out = Append(g.out, made.batch)]

\* mutant: seeded from another seed than the constructor's
reset_rng_value_other(self_seed) == RandomState(self_seed + 1)

\* RandomState(self.seed)
reset_rng_value(self_seed) == RandomState(self_seed)

(***************************************************************************)
(* The iterator and its caller                                             *)
(***************************************************************************)
Datasets == UNION {[1..k -> 1..MaxTrialLen] : k \in 0..MaxTrials}

Init ==
    /\ batch_size \in 1..MaxBatchSize
    /\ input_time_length \in 1..MaxInputLen
    /\ n_preds_per_input \in 1..input_time_length
    /\ seed = DefaultSeed
    /\ rng = RandomState(seed)
    /\ dataset \in Datasets
    /\ gens = <<>>
    /\ call_result = NoCall
    /\ n_resets = 0
    /\ n_shuffles = 0
    /\ plan_args = NoPlan
    /\ plan_result = <<>>

NewGen(shuffle, blocks) ==
    [shuffle |-> shuffle, blocks |-> blocks, state |-> "created", array |-> <<>>,
     batches |-> <<>>, pos |-> 0, out |-> <<>>, raised |-> "none",
     pull_rng |-> 0, ordinal |-> 0, epoch |-> 0]

\* gen = it.get_batches(dataset, shuffle)
GetBatches(shuffle) ==
    LET plan == get_batches_plan(dataset, input_time_length, n_preds_per_input)
    IN /\ call_result' = [called |-> TRUE, raised |-> plan.raised, line |-> plan.line]
       /\ IF plan.raised = "none"
          THEN /\ Len(gens) < MaxGens
               /\ gens' = Append(gens, NewGen(shuffle, plan.blocks))
          ELSE gens' = gens
       /\ UNCHANGED <<batch_size, input_time_length, n_preds_per_input, seed, rng,
                      dataset, n_resets, n_shuffles, plan_vars>>

\* next(gen) on a generator that has not finished
Pull(i) ==
    /\ gens[i].state \in {"created", "suspended"}
    /\ LET g == gens[i]
           first == body_starts(g)
           started == IF first THEN gen_start(g, batch_size, rng)
                               ELSE [gen |-> g, rng |-> rng]
           drew == g.state = "created" /\ g.shuffle
           marked == IF g.state = "created"
                     THEN [started.gen EXCEPT !.pull_rng = rng, !.epoch = n_resets,
                               !.ordinal = IF drew THEN n_shuffles + 1 ELSE 0]
                     ELSE started.gen
           after == gen_loop(marked)
       IN /\ gens' = [gens EXCEPT ![i] = after]
          /\ rng' = started.rng
          /\ n_shuffles' = IF drew THEN n_shuffles + 1 ELSE n_shuffles
    /\ UNCHANGED <<batch_size, input_time_length, n_preds_per_input, seed,
                   dataset, call_result, n_resets, plan_vars>>

\* it.reset_rng()
ResetRng ==
    /\ n_resets < MaxResets
    /\ rng' = reset_rng_value(seed)
    /\ n_resets' = n_resets + 1
    /\ n_shuffles' = 0
    /\ UNCHANGED <<batch_size, input_time_length, n_preds_per_input, seed,
                   dataset, gens, call_result, plan_vars>>

Next ==
    \/ \E shuffle \in BOOLEAN : GetBatches(shuffle)
    \/ \E i \in 1..Len(gens) : Pull(i)
    \/ ResetRng

Spec == Init /\ [][Next]_vars

\* the get_batches calls alone: what is planned and checked at the call
CallNext == \E shuffle \in BOOLEAN : GetBatches(shuffle)

SpecCall == Init /\ [][CallNext]_vars

(***************************************************************************)
(* Properties of the iterator                                              *)
(***************************************************************************)
\* the length precondition: no trial is shorter than the input window
ValidDataset == \A t \in 1..Len(dataset) : dataset[t] >= input_time_length

\* C2: for a dataset whose trials are all at least input_time_length long,
\* every window planned by get_batches starts at 0 or later, is exactly
\* input_time_length long and stops inside its trial.
C2_WindowsInsideTrial ==
    ValidDataset =>
        \A i \in 1..Len(gens) : \A t \in 1..Len(gens[i].blocks) :
            \A k \in 1..Len(gens[i].blocks[t]) :
                LET block == gens[i].blocks[t][k]
                IN /\ 0 <= block[1]
                   /\ block[2] - block[1] = input_time_length
                   /\ block[2] <= dataset[t]

\* C2 witness: a planned trial, longer than the input window, whose last
\* window was pulled back to the trial's end
C2_Witness ==
    /\ ValidDataset
    /\ \E i \in 1..Len(gens) : \E t \in 1..Len(gens[i].blocks) :
           /\ Len(gens[i].blocks[t]) >= 2
           /\ dataset[t] > input_time_length
           /\ (dataset[t] - (input_time_length - n_preds_per_input)) % n_preds_per_input # 0

\* C3: on a dataset of no trial, get_batches and every next() on the
\* sequence it returns end without an error other than the end of the
\* sequence, and no batch is yielded.
C3_EmptyDatasetNoBatchNoError ==
    dataset = <<>> =>
        /\ call_result.raised = "none"
        /\ \A i \in 1..Len(gens) :
               /\ gens[i].raised \in {"none", "StopIteration"}
               /\ gens[i].state # "failed"
               /\ gens[i].out = <<>>

\* the generator state after k permutations drawn from a fresh RandomState(seed)
RECURSIVE StateAfter(_)
StateAfter(k) == IF k <= 0 THEN RandomState(seed) ELSE rng_advance(StateAfter(k - 1))

\* the batches of the k-th shuffled sequence of a freshly constructed iterator
\* with the same parameters and seed, on the same dataset
FreshOut(k) ==
    LET plan == get_batches_plan(dataset, input_time_length, n_preds_per_input)
        array == as_2d_array(flatten_blocks(1, plan.blocks))
        bb == get_balanced_batches(Len(array), batch_size, StateAfter(k - 1), TRUE).batches
    IN [b \in 1..Len(bb) |-> create_batch(take_rows(array, bb[b])).batch]

\* every batch of sequence i has been pulled
FullyConsumed(i) ==
    \/ gens[i].state = "done"
    \/ gens[i].state = "suspended" /\ gens[i].pos = Len(gens[i].batches)

\* the rank of sequence i among the fully consumed shuffled sequences of
\* its epoch (construction, or the same reset_rng(), to the next), in the
\* order of their first next()
FullRank(i) ==
    Cardinality({j \in 1..Len(gens) : /\ gens[j].shuffle
                                      /\ FullyConsumed(j)
                                      /\ gens[j].epoch = gens[i].epoch
                                      /\ gens[j].ordinal <= gens[i].ordinal})

\* C4 as stated: the k-th fully consumed get_batches(dataset, shuffle=True)
\* since construction or reset_rng() yields the batches of the k-th such
\* call on a fresh iterator with the same seed.
C4_KthFullyConsumedAsFresh ==
    \A i \in 1..Len(gens) :
        (gens[i].shuffle /\ FullyConsumed(i)) => gens[i].out = FreshOut(FullRank(i))

\* C4 amended: a fully consumed shuffled sequence that was the k-th shuffled
\* sequence to be pulled for the first time since construction or the last
\* reset_rng() (counting those left unfinished) yields the batches of the
\* k-th shuffled sequence of a fresh iterator with the same seed.
C4_KthPulledAsFresh ==
    \A i \in 1..Len(gens) :
        (gens[i].shuffle /\ FullyConsumed(i)) => gens[i].out = FreshOut(gens[i].ordinal)

\* C4 witness: a first sequence consumed after construction and a first
\* sequence consumed after reset_rng(), of several batches each
C4_Witness ==
    /\ n_resets = 1
    /\ Len(gens) = 2
    /\ \A i \in 1..2 : /\ gens[i].shuffle
                       /\ FullyConsumed(i)
                       /\ gens[i].ordinal = 1
                       /\ Len(gens[i].out) >= 2
    /\ gens[1].out # FreshOut(2)

\* the windows planned for generator i, as the entries of a batch
PlannedWindows(i) ==
    UNION {{[i_trial |-> t - 1, start |-> gens[i].blocks[t][k][1],
             stop |-> gens[i].blocks[t][k][2]] : k \in 1..Len(gens[i].blocks[t])} :
           t \in 1..Len(gens[i].blocks)}

\* the places (batch, position) of the batches generator i has yielded
Places(i) ==
    UNION {{<<b, k>> : k \in 1..Len(gens[i].out[b])} : b \in 1..Len(gens[i].out)}

\* C5: a fully consumed sequence over a non-empty valid dataset delivers
\* every planned window at exactly one place, and nothing else.
C5_EveryWindowOnce ==
    (ValidDataset /\ dataset # <<>>) =>
        \A i \in 1..Len(gens) :
            FullyConsumed(i) =>
                /\ \A w \in PlannedWindows(i) :
                       Cardinality({p \in Places(i) : gens[i].out[p[1]][p[2]] = w}) = 1
                /\ \A p \in Places(i) : gens[i].out[p[1]][p[2]] \in PlannedWindows(i)
                /\ Cardinality(PlannedWindows(i))
                       = Len(flatten_blocks(1, gens[i].blocks))

\* C5 witness: a fully consumed shuffled sequence of several batches over two trials
C5_Witness ==
    /\ ValidDataset
    /\ Len(dataset) = 2
    /\ \E i \in 1..Len(gens) :
           /\ FullyConsumed(i)
           /\ gens[i].shuffle
           /\ Len(gens[i].out) >= 2
           /\ gens[i].batches # get_balanced_batches(Len(gens[i].array), batch_size, 0, FALSE).batches

\* C6: with a trial shorter than input_time_length, every get_batches call
\* fails at the call with the length assertion; no sequence is returned, so
\* nothing is ever pulled, and the generator state stays as seeded.
C6_ShortTrialFailsAtCall ==
    ~ValidDataset =>
        /\ gens = <<>>
        /\ rng = RandomState(seed)
        /\ call_result.called =>
               (call_result.raised = "AssertionError" /\ call_result.line = 63)

\* C6 witness: a failed call on a dataset whose first trial is long enough
\* and whose second is too short
C6_Witness ==
    /\ Len(dataset) = 2
    /\ dataset[1] >= input_time_length
    /\ dataset[2] < input_time_length
    /\ call_result.called
    /\ call_result.raised = "AssertionError"

\* C7: on a valid dataset get_batches raises nothing: the coverage check
\* holds unclipped, the first window of every trial starts at 0, so that its
\* predicted range starts at input_time_length - n_preds_per_input, and the
\* last window stops at the trial's length.
C7_ValidationNeverFails ==
    ValidDataset =>
        /\ call_result.raised = "none"
        /\ \A i \in 1..Len(gens) :
               /\ Len(gens[i].blocks) = Len(dataset)
               /\ \A t \in 1..Len(gens[i].blocks) :
                      LET trial_blocks == gens[i].blocks[t]
                      IN /\ trial_blocks # <<>>
                         /\ trial_blocks[1][1] = 0
                         /\ trial_blocks[1][2] - n_preds_per_input
                                = input_time_length - n_preds_per_input
                         /\ trial_blocks[Len(trial_blocks)][2] = dataset[t]
                         /\ UNION {RangeSet(trial_blocks[k][2] - n_preds_per_input,
                                            trial_blocks[k][2]) :
                                       k \in 1..Len(trial_blocks)}
                                = RangeSet(input_time_length - n_preds_per_input, dataset[t])

\* C7 witness: a successful call on two trials of different lengths, one of
\* several windows
C7_Witness ==
    /\ ValidDataset
    /\ call_result.called
    /\ call_result.raised = "none"
    /\ Len(dataset) = 2
    /\ dataset[1] # dataset[2]
    /\ \E i \in 1..Len(gens) : Len(gens[i].blocks[2]) >= 2

\* the step is a successful get_batches(dataset, shuffle) call
CallStep(shuffle) ==
    /\ Len(gens') = Len(gens) + 1
    /\ gens'[Len(gens')].shuffle = shuffle

\* the step is a next() on sequence i
PullStep(i) == Len(gens') = Len(gens) /\ gens'[i] # gens[i]

\* C9: neither a get_batches(dataset, shuffle=False) call nor any next() on
\* the sequence it returned changes the generator state.
C9_UnshuffledLeavesRng ==
    [][/\ CallStep(FALSE) => rng' = rng
       /\ \A i \in 1..Len(gens) : (PullStep(i) /\ ~gens[i].shuffle) => rng' = rng]_vars

\* C9 witness: an unshuffled sequence was consumed to its end, and the
\* shuffled sequence first pulled after it drew from the state as seeded
C9_Witness ==
    /\ n_resets = 0
    /\ Len(gens) = 2
    /\ ~gens[1].shuffle /\ FullyConsumed(1) /\ Len(gens[1].out) >= 2
    /\ gens[2].shuffle /\ gens[2].pos = 1 /\ gens[2].pull_rng = RandomState(seed)
    /\ gens[2].epoch = 0
    /\ rng = rng_advance(RandomState(seed))

\* C10: the generator state moves on exactly at the first next() on a
\* shuffled sequence, once: not at get_batches, not at a later next(), not
\* for an unshuffled sequence; and the permutation of a sequence is drawn
\* from the state the generator is in at that first next().
C10_AdvanceAtFirstPullOnly ==
    [][/\ (CallStep(TRUE) \/ CallStep(FALSE)) => rng' = rng
       /\ \A i \in 1..Len(gens) :
              PullStep(i) =>
                  IF gens[i].state = "created" /\ gens[i].shuffle
                  THEN /\ rng' = rng_advance(rng)
                       /\ rng' # rng
                       /\ gens'[i].batches =
                              get_balanced_batches(Len(gens'[i].array), batch_size,
                                                   rng, TRUE).batches
                  ELSE /\ rng' = rng
                       /\ gens[i].state = "suspended" =>
                              gens'[i].batches = gens[i].batches]_vars

\* C10 witness: of two shuffled sequences the one returned second was pulled
\* first and drew from the state as seeded; the one returned first drew from
\* the state after it, and has been pulled again since
C10_Witness ==
    /\ n_resets = 0
    /\ Len(gens) = 2
    /\ gens[1].shuffle /\ gens[2].shuffle
    /\ gens[2].state = "suspended" /\ gens[2].pull_rng = RandomState(seed)
    /\ gens[1].pos >= 2 /\ gens[1].pull_rng = rng_advance(RandomState(seed))
    /\ rng = rng_advance(rng_advance(RandomState(seed)))

====
